---------------------------- MODULE Spec2Model ----------------------------
(***************************************************************************)
(* nmsi: resolution of per-tool install scripts in a layered store, and     *)
(* the commands that read and populate that store (src/nmsi.py,             *)
(* src/downloader.py).                                                      *)
(*                                                                         *)
(* Text (names, URLs, machine identifiers) is a sequence of one-character   *)
(* strings, so that prefix tests, splitting, lower-casing and ordering are  *)
(* computed as Python computes them.  A path is a sequence of names,        *)
(* relative to install_dir; <<>> is install_dir itself.                     *)
(***************************************************************************)
EXTENDS Naturals, Sequences, FiniteSets, TLC

VARIABLES host, nmsi, dirs, files, tmpdirs, last

vars == <<host, nmsi, dirs, files, tmpdirs, last>>

\* An absent optional argument (None or ""): the code tests only its truthiness.
None == <<>>

(***************************************************************************)
(* Characters and Python's str operations                                   *)
(***************************************************************************)
Uppers == <<"A","B","C","D","E","F","G","H","I","J","K","L","M",
            "N","O","P","Q","R","S","T","U","V","W","X","Y","Z">>

Lowers == <<"a","b","c","d","e","f","g","h","i","j","k","l","m",
            "n","o","p","q","r","s","t","u","v","w","x","y","z">>

\* The characters of the model in code-point order (str comparison).
CodePoints == <<" ", "\"", "#", "+", "-", ".", "/",
                "0","1","2","3","4","5","6","7","8","9", ":", "?", "@">>
              \o Uppers \o <<"_">> \o Lowers

Ord(c) == CHOOSE i \in 1..Len(CodePoints) : CodePoints[i] = c

lower_char(c) ==
    IF \E i \in 1..Len(Uppers) : Uppers[i] = c
    THEN Lowers[CHOOSE i \in 1..Len(Uppers) : Uppers[i] = c]
    ELSE c

\* str.lower()
lower(s) == [i \in 1..Len(s) |-> lower_char(s[i])]

\* str.startswith(p)
startswith(s, p) == Len(s) >= Len(p) /\ SubSeq(s, 1, Len(p)) = p

\* str.endswith(p)
endswith(s, p) == Len(s) >= Len(p) /\ SubSeq(s, Len(s) - Len(p) + 1, Len(s)) = p

\* a < b for str: lexicographic by code point, a proper prefix is smaller
RECURSIVE str_less(_, _)
str_less(a, b) ==
    IF b = <<>> THEN FALSE
    ELSE IF a = <<>> THEN TRUE
    ELSE IF a[1] # b[1] THEN Ord(a[1]) < Ord(b[1])
    ELSE str_less(Tail(a), Tail(b))

\* sorted(names)
RECURSIVE sorted(_)
sorted(S) ==
    IF S = {} THEN <<>>
    ELSE LET m == CHOOSE x \in S : \A y \in S : x = y \/ str_less(x, y)
         IN  <<m>> \o sorted(S \ {m})

\* s.find(c): the first index of character c in s, 0 when there is none
find(s, c) ==
    IF \E i \in 1..Len(s) : s[i] = c
    THEN CHOOSE i \in 1..Len(s) : s[i] = c /\ \A j \in 1..(i - 1) : s[j] # c
    ELSE 0

\* s.split(c): the pieces of s between occurrences of the character c
RECURSIVE split(_, _)
split(s, c) ==
    LET i == find(s, c)
    IN  IF i = 0 THEN <<s>>
        ELSE <<SubSeq(s, 1, i - 1)>> \o split(SubSeq(s, i + 1, Len(s)), c)

\* s.split(): the non-empty pieces of s between runs of whitespace
split_ws(s) == SelectSeq(split(s, " "), LAMBDA w : w # <<>>)

\* s.strip(c) for a single character c (strip() strips whitespace)
RECURSIVE lstrip(_, _)
lstrip(s, c) == IF s # <<>> /\ s[1] = c THEN lstrip(Tail(s), c) ELSE s

RECURSIVE rstrip(_, _)
rstrip(s, c) ==
    IF s # <<>> /\ s[Len(s)] = c THEN rstrip(SubSeq(s, 1, Len(s) - 1), c) ELSE s

strip(s, c) == rstrip(lstrip(s, c), c)

(***************************************************************************)
(* Names used by the program                                                *)
(***************************************************************************)
linux      == <<"l","i","n","u","x">>
darwin     == <<"d","a","r","w","i","n">>
macos      == <<"m","a","c","o","s">>
windows    == <<"w","i","n","d","o","w","s">>
universal  == <<"u","n","i","v","e","r","s","a","l">>
general    == <<"g","e","n","e","r","a","l">>
install_sh == <<"i","n","s","t","a","l","l",".","s","h">>
install    == <<"i","n","s","t","a","l","l">>
amd64      == <<"a","m","d","6","4">>
x86_64     == <<"x","8","6","_","6","4">>
aarch64    == <<"a","a","r","c","h","6","4">>
arm64      == <<"a","r","m","6","4">>
arm        == <<"a","r","m">>
i386       == <<"i","3","8","6">>
i686       == <<"i","6","8","6">>

(***************************************************************************)
(* Environment detection (NMSI.__init__)                                    *)
(***************************************************************************)
\* dict.get(key, default) on the os-release dictionary
get(info, key, default) == IF key \in DOMAIN info THEN info[key] ELSE default

\* add_flavor: append a non-empty name not yet in the list
add_flavor(flavors, name) ==
    IF name # <<>> /\ \A i \in 1..Len(flavors) : flavors[i] # name
    THEN Append(flavors, name)
    ELSE flavors

\* A plausible slip: the bare family name added before its versioned form.
RECURSIVE add_likes_bare_first(_, _, _)
add_likes_bare_first(flavors, likes, version_major) ==
    IF likes = <<>> THEN flavors
    ELSE LET like == lower(Head(likes))
             f1   == add_flavor(flavors, like)
         IN  add_likes_bare_first(IF version_major # <<>>
                                  THEN add_flavor(f1, like \o version_major)
                                  ELSE f1,
                                  Tail(likes), version_major)

RECURSIVE add_likes(_, _, _)
add_likes(flavors, likes, version_major) ==
    IF likes = <<>> THEN flavors
    ELSE LET like == lower(Head(likes))
             f1   == IF version_major # <<>>
                     THEN add_flavor(flavors, like \o version_major)
                     ELSE flavors
         IN  add_likes(add_flavor(f1, like), Tail(likes), version_major)

\* NMSI._detect_linux_flavors, on the os-release dictionary it read
_detect_linux_flavors(info) ==
    LET base_id       == lower(get(info, "ID", linux))
        version_id    == strip(strip(get(info, "VERSION_ID", <<>>), " "), "\"")
        version_major == IF version_id # <<>> THEN split(version_id, ".")[1] ELSE <<>>
        f1 == IF base_id # <<>> /\ version_major # <<>>
              THEN add_flavor(<<>>, base_id \o version_major)
              ELSE <<>>
        f2 == IF base_id # <<>> THEN add_flavor(f1, base_id) ELSE f1
        id_like == get(info, "ID_LIKE", <<>>)
        f3 == IF id_like # <<>> THEN add_likes(f2, split_ws(id_like), version_major)
              ELSE f2
    IN  add_flavor(f3, linux)

\* NMSI._detect_os_and_flavors: <<os type, flavor chain>>
_detect_os_and_flavors(h) ==
    LET system == lower(h.system)
    IN  IF system = darwin THEN <<macos, <<macos>>>>
        ELSE IF system = linux
             THEN LET flavors == _detect_linux_flavors(h.os_release)
                  IN  <<IF flavors # <<>> THEN flavors[1] ELSE linux,
                        IF flavors # <<>> THEN flavors ELSE <<linux>>>>
        ELSE IF system = windows THEN <<windows, <<windows>>>>
        ELSE <<system, <<system>>>>

\* A plausible slip: the generic ARM prefix test placed before the arm64 test.
get_arch_prefix_first(machine_raw) ==
    LET machine == lower(machine_raw)
    IN  IF machine \in {x86_64, amd64} THEN amd64
        ELSE IF startswith(machine, arm) THEN arm
        ELSE IF machine \in {aarch64, arm64} THEN arm64
        ELSE IF machine = i386 \/ machine = i686 THEN i386
        ELSE machine

\* NMSI._get_arch, on platform.machine()
_get_arch(machine_raw) ==
    LET machine == lower(machine_raw)
    IN  IF machine \in {x86_64, amd64} THEN amd64
        ELSE IF machine \in {aarch64, arm64} THEN arm64
        ELSE IF startswith(machine, arm) THEN arm
        ELSE IF machine = i386 \/ machine = i686 THEN i386
        ELSE machine

\* NMSI.__init__(os_type, arch) on host h: the Environment of the instance
NMSI_init(h) ==
    LET detected == _detect_os_and_flavors(h)
        os_arg   == h.os_type
        given    == os_arg # None
        normalized_os == lower(os_arg)
    IN  [os_type    |-> IF given THEN normalized_os ELSE detected[1],
         os_flavors |-> IF given
                        THEN IF normalized_os # linux
                             THEN <<normalized_os, linux>>
                             ELSE <<normalized_os>>
                        ELSE detected[2],
         arch       |-> IF h.arch # None THEN h.arch ELSE _get_arch(h.machine)]

(***************************************************************************)
(* URLs                                                                     *)
(***************************************************************************)
is_alpha(c) == \E i \in 1..Len(Lowers) : Lowers[i] = c \/ Uppers[i] = c

is_scheme_char(c) ==
    is_alpha(c) \/ c \in {"0","1","2","3","4","5","6","7","8","9","+","-","."}

\* The index of the first character of s that is in the set cs, 0 when there is none
find_any(s, cs) ==
    IF \E i \in 1..Len(s) : s[i] \in cs
    THEN CHOOSE i \in 1..Len(s) : s[i] \in cs /\ \A j \in 1..(i - 1) : s[j] \notin cs
    ELSE 0

\* s up to (not including) the first character in cs
before_any(s, cs) == IF find_any(s, cs) = 0 THEN s ELSE SubSeq(s, 1, find_any(s, cs) - 1)

\* s from the first character in cs on
from_any(s, cs) == IF find_any(s, cs) = 0 THEN <<>> ELSE SubSeq(s, find_any(s, cs), Len(s))

\* urllib.parse.urlparse(url): scheme (lower-cased), netloc and path
urlparse(url) ==
    LET i          == find(url, ":")
        has_scheme == /\ i > 1
                      /\ is_alpha(url[1])
                      /\ \A j \in 1..(i - 1) : is_scheme_char(url[j])
        rest       == IF has_scheme THEN SubSeq(url, i + 1, Len(url)) ELSE url
        has_netloc == startswith(rest, <<"/","/">>)
        after      == SubSeq(rest, 3, Len(rest))
        tail       == IF has_netloc THEN from_any(after, {"/", "?", "#"}) ELSE rest
    IN  [scheme |-> IF has_scheme THEN lower(SubSeq(url, 1, i - 1)) ELSE <<>>,
         netloc |-> IF has_netloc THEN before_any(after, {"/", "?", "#"}) ELSE <<>>,
         path   |-> before_any(tail, {"?", "#"})]

git_at      == <<"g","i","t","@">>
git_scheme  == <<"g","i","t",":","/","/">>
https_scheme == <<"h","t","t","p","s",":","/","/">>
git         == <<"g","i","t">>
http        == <<"h","t","t","p">>
https       == <<"h","t","t","p","s">>
file        == <<"f","i","l","e">>

\* str.split(c, 1)[-1]: what follows the first c, the whole of s when there is none
after_first(s, i) == IF i = 0 THEN s ELSE SubSeq(s, i + 1, Len(s))

\* The path _get_repo_name_from_url takes the name from
url_path(url, parsed) ==
    IF startswith(url, git_at) THEN after_first(url, find(url, ":"))
    ELSE IF parsed.scheme # <<>> THEN parsed.path
    ELSE url

\* path.split("/")[-1]
last_component(parts) == parts[Len(parts)]

named(name1) == [ok |-> name1 # <<>>, name |-> name1]

\* The name _get_repo_name_from_url takes from the path without its trailing slashes
repo_name_of(path) ==
    IF path = <<>> THEN [ok |-> FALSE, name |-> <<>>]
    ELSE named(before_any(last_component(split(path, "/")), {"."}))

\* NMSI._get_repo_name_from_url: [ok, name]; ~ok is the ValueError it raises
_get_repo_name_from_url(url) == repo_name_of(rstrip(url_path(url, urlparse(url)), "/"))

\* Downloader.normalize_url
normalize_url(url) ==
    IF startswith(url, git_scheme)
    THEN https_scheme \o SubSeq(url, Len(git_scheme) + 1, Len(url))
    ELSE url

\* Downloader.create_downloader: the downloader class and the URL it is given;
\* "unsupported" is the ValueError it raises
create_downloader(url) ==
    LET scheme == urlparse(url).scheme
    IN  IF startswith(url, git_at) THEN [class |-> "GitDownloader", url |-> url]
        ELSE IF startswith(url, git_scheme) \/ scheme = git
        THEN [class |-> "GitDownloader", url |-> normalize_url(url)]
        ELSE IF scheme \in {http, https} THEN [class |-> "HttpDownloader", url |-> url]
        ELSE IF scheme = file THEN [class |-> "FileDownloader", url |-> url]
        ELSE [class |-> "unsupported", url |-> url]

(***************************************************************************)
(* The store: the directories and files under install_dir.  A store value   *)
(* is [dirs, files]; a file is [data, exec].                                *)
(***************************************************************************)
Store == [dirs |-> dirs, files |-> files]

EmptyFiles == [p \in {} |-> 0]

is_dir(st, p) == p \in st.dirs

is_file(st, p) == p \in DOMAIN st.files

\* Path.exists()
exists(st, p) == is_dir(st, p) \/ is_file(st, p)

Prefixes(p) == {SubSeq(p, 1, k) : k \in 0..Len(p)}

parent(p) == SubSeq(p, 1, Len(p) - 1)

\* Path.name
name(p) == p[Len(p)]

is_under(p, d) == Len(p) > Len(d) /\ SubSeq(p, 1, Len(d)) = d

\* Path.iterdir()
iterdir(st, d) == {p \in st.dirs \cup DOMAIN st.files : is_under(p, d) /\ Len(p) = Len(d) + 1}

\* Path.mkdir(parents=True, exist_ok=True): fails when a component is a file
mkdir(st, p) ==
    IF \E q \in Prefixes(p) : is_file(st, q)
    THEN [ok |-> FALSE, st |-> st]
    ELSE [ok |-> TRUE, st |-> [st EXCEPT !.dirs = @ \cup Prefixes(p)]]

\* shutil.copy2(src, dst): into dst/<src name> when dst is a directory
copy2_target(st, src_name, dst) == IF is_dir(st, dst) THEN dst \o <<src_name>> ELSE dst

copy2_ok(st, src_name, dst) ==
    LET t == copy2_target(st, src_name, dst)
    IN  ~is_dir(st, t) /\ is_dir(st, parent(t))

\* A plausible slip: a file that is already there is kept, not overwritten.
copy2_keep_existing(st, src_name, f, dst) ==
    LET t == copy2_target(st, src_name, dst)
    IN  [st EXCEPT !.files = [p \in DOMAIN @ \cup {t} |-> IF p \in DOMAIN @ THEN @[p] ELSE f]]

copy2(st, src_name, f, dst) ==
    LET t == copy2_target(st, src_name, dst)
    IN  [st EXCEPT !.files = [p \in DOMAIN @ \cup {t} |-> IF p = t THEN f ELSE @[p]]]

\* Path.chmod(0o755) on a path that exists
chmod(st, p) ==
    IF is_file(st, p) THEN [st EXCEPT !.files[p].exec = TRUE] ELSE st

(***************************************************************************)
(* Downloaders.  A source tree is a function from the paths of its files    *)
(* (relative to the tree's top) to files.  A download yields the possible   *)
(* outcomes [rc, st, tmp, scratch]: the exit code, the store, the scratch    *)
(* directories left behind, and whether a scratch directory was made.       *)
(***************************************************************************)
\* The files of tree under its directory d, by their paths relative to d
subtree(tree, d) ==
    [r \in {SubSeq(p, Len(d) + 1, Len(p)) : p \in {q \in DOMAIN tree : is_under(q, d)}}
       |-> tree[d \o r]]

\* The directories of a tree
tree_dirs(tree) == UNION {Prefixes(parent(p)) : p \in DOMAIN tree}

\* One file of _copy_scripts' loop: mkdir of the parent, copy2, chmod of *.sh
copy_one(st, destination, rel_path, f) ==
    LET dest_file == destination \o rel_path
        made      == mkdir(st, parent(dest_file))
    IN  IF ~made.ok THEN [ok |-> FALSE, st |-> st]
        ELSE IF ~copy2_ok(made.st, name(rel_path), dest_file)
        THEN [ok |-> FALSE, st |-> made.st]
        ELSE LET copied == copy2(made.st, name(rel_path), f, dest_file)
             IN  [ok |-> TRUE,
                  st |-> IF endswith(name(dest_file), <<".","s","h">>)
                         THEN chmod(copied, dest_file) ELSE copied]

\* The loop of _copy_scripts over the files still to copy, in any order
\* (rglob's); shutil.copy2 may also fail on any file (an I/O error).
RECURSIVE copy_loop(_, _, _, _)
copy_loop(st, destination, source, todo) ==
    IF todo = {} THEN {[ok |-> TRUE, st |-> st]}
    ELSE UNION {
           LET r      == copy_one(st, destination, rel_path, source[rel_path])
               failed == [ok |-> FALSE,
                          st |-> mkdir(st, parent(destination \o rel_path)).st]
           IN  {failed} \cup
               (IF r.ok THEN copy_loop(r.st, destination, source, todo \ {rel_path})
                ELSE {r})
           : rel_path \in todo}

\* A plausible slip: the destination is emptied before the copy (a mirror, not a merge).
copy_scripts_mirror(st, destination, source) ==
    LET wiped == [st EXCEPT !.files =
                     [p \in {q \in DOMAIN @ : ~is_under(q, destination)} |-> @[p]]]
        made  == mkdir(wiped, destination)
    IN  IF ~made.ok THEN {[ok |-> FALSE, st |-> st]}
        ELSE copy_loop(made.st, destination, source, DOMAIN source)

\* Downloader._copy_scripts: ~ok is the RuntimeError it raises
_copy_scripts(st, destination, source) ==
    LET made == mkdir(st, destination)
    IN  IF ~made.ok THEN {[ok |-> FALSE, st |-> st]}
        ELSE copy_loop(made.st, destination, source, DOMAIN source)

\* The scratch directory tempfile.TemporaryDirectory() makes
tmpdir == <<"t","m","p">>

\* An outcome of a download that made no scratch directory
Outcome(rc, st) == [rc |-> rc, st |-> st, tmp |-> {}, scratch |-> FALSE]

\* A plausible slip: the scratch directory removed at the end of the block only,
\* and so left behind when the block is left by an exception.
with_tmpdir_no_finally(o) ==
    [o EXCEPT !.tmp = IF o.rc = 0 THEN @ ELSE @ \cup {tmpdir}, !.scratch = TRUE]

\* with tempfile.TemporaryDirectory() as tmpdir: the directory is made on entry
\* and removed when the block is left, by a return or by an exception
with_tmpdir(o) == [o EXCEPT !.tmp = (@ \cup {tmpdir}) \ {tmpdir}, !.scratch = TRUE]

rc_of(copy) == IF copy.ok THEN 0 ELSE 1

\* What a clone of the repository gives: git is missing, the clone fails, or a tree.
\* GitDownloader.download
GitDownloader_download(st, destination, world) ==
    IF world.kind = "no_git" THEN {Outcome(1, st)}
    ELSE IF world.kind # "tree" THEN {with_tmpdir(Outcome(1, st))}
    ELSE IF <<install>> \notin tree_dirs(world.tree) \cup DOMAIN world.tree
    THEN {with_tmpdir(Outcome(1, st))}
    ELSE {with_tmpdir(Outcome(rc_of(c), c.st))
            : c \in _copy_scripts(st, destination, subtree(world.tree, <<install>>))}

\* The directories named install of an extracted archive (rglob("install"))
install_dirs(tree) == {d \in tree_dirs(tree) : d # <<>> /\ name(d) = install}

\* HttpDownloader.download with _extract_and_copy: the download fails, the
\* extraction fails, or the archive holds a tree
HttpDownloader_download(st, destination, world) ==
    IF world.kind # "tree" THEN {with_tmpdir(Outcome(1, st))}
    ELSE IF install_dirs(world.tree) = {} THEN {with_tmpdir(Outcome(1, st))}
    ELSE UNION {{with_tmpdir(Outcome(rc_of(c), c.st))
                   : c \in _copy_scripts(st, destination, subtree(world.tree, d))}
                : d \in install_dirs(world.tree)}

\* A plausible slip: the local directory copied whole, its install subdirectory
\* not preferred.
file_download_whole_tree(st, destination, source_path, world) ==
    LET made == mkdir(st, destination)
    IN  IF world.kind # "tree" \/ ~made.ok THEN {Outcome(1, st)}
        ELSE {Outcome(rc_of(c), c.st) : c \in _copy_scripts(made.st, destination, world.tree)}

\* FileDownloader.download: the source path is missing, a file, or a directory
FileDownloader_download(st, destination, source_path, world) ==
    LET made == mkdir(st, destination)
    IN  IF world.kind = "missing" THEN {Outcome(1, st)}
        ELSE IF ~made.ok THEN {Outcome(1, st)}
        ELSE IF world.kind = "file"
        THEN LET dest_file == destination \o <<name(source_path)>>
             IN  IF copy2_ok(made.st, name(source_path), dest_file)
                 THEN {Outcome(0, chmod(copy2(made.st, name(source_path), world.file,
                                              dest_file), dest_file)),
                       Outcome(1, made.st)}
                 ELSE {Outcome(1, made.st)}
        ELSE IF <<install>> \in tree_dirs(world.tree)
        THEN {Outcome(rc_of(c), c.st)
                : c \in _copy_scripts(made.st, destination, subtree(world.tree, <<install>>))}
        ELSE {Outcome(rc_of(c), c.st)
                : c \in _copy_scripts(made.st, destination, world.tree)}

(***************************************************************************)
(* Resolution                                                               *)
(***************************************************************************)
AT == <<"@">>

\* NMSI._iter_install_roots
_iter_install_roots(st) ==
    IF ~exists(st, <<>>) THEN <<>>
    ELSE LET repo_dirs == {d \in iterdir(st, <<>>) : is_dir(st, d) /\ startswith(name(d), AT)}
             names     == sorted({name(d) : d \in repo_dirs})
         IN  [i \in 1..Len(names) |-> <<names[i]>>] \o << <<>> >>

NotFound == [found |-> FALSE]

Found(path, os_name, arch) == [found |-> TRUE, path |-> path, os |-> os_name, arch |-> arch]

\* A plausible slip: the arch-independent script tried before the arch-specific one.
RECURSIVE flavor_loop_general_first(_, _, _, _, _)
flavor_loop_general_first(st, env, root, tool_name, flavors) ==
    IF flavors = <<>> THEN NotFound
    ELSE LET os_name == Head(flavors)
             install_script_path == root \o <<tool_name, os_name, env.arch, install_sh>>
             general_script_path == root \o <<tool_name, os_name, general, install_sh>>
         IN  IF exists(st, general_script_path)
             THEN Found(general_script_path, os_name, general)
             ELSE IF exists(st, install_script_path)
             THEN Found(install_script_path, os_name, env.arch)
             ELSE flavor_loop_general_first(st, env, root, tool_name, Tail(flavors))

\* The loop over self.os_flavors of _find_install_script_in_root
RECURSIVE flavor_loop(_, _, _, _, _)
flavor_loop(st, env, root, tool_name, flavors) ==
    IF flavors = <<>> THEN NotFound
    ELSE LET os_name == Head(flavors)
             install_script_path == root \o <<tool_name, os_name, env.arch, install_sh>>
             general_script_path == root \o <<tool_name, os_name, general, install_sh>>
         IN  IF exists(st, install_script_path)
             THEN Found(install_script_path, os_name, env.arch)
             ELSE IF exists(st, general_script_path)
             THEN Found(general_script_path, os_name, general)
             ELSE flavor_loop(st, env, root, tool_name, Tail(flavors))

\* A plausible slip: when nothing matches the environment, a script for any other
\* OS or architecture is taken.
find_in_root_any_os(st, env, root, tool_name) ==
    LET chain  == flavor_loop(st, env, root, tool_name, env.os_flavors \o <<universal>>)
        others == {p \in DOMAIN st.files : /\ is_under(p, root \o <<tool_name>>)
                                           /\ Len(p) = Len(root) + 4
                                           /\ name(p) = install_sh}
    IN  IF chain.found THEN chain
        ELSE IF others # {}
        THEN LET p == CHOOSE q \in others : TRUE
             IN  Found(p, p[Len(root) + 2], p[Len(root) + 3])
        ELSE NotFound

\* NMSI._find_install_script_in_root
_find_install_script_in_root(st, env, root, tool_name) ==
    LET by_flavor == flavor_loop(st, env, root, tool_name, env.os_flavors)
        universal_arch_path    == root \o <<tool_name, universal, env.arch, install_sh>>
        universal_general_path == root \o <<tool_name, universal, general, install_sh>>
    IN  IF by_flavor.found THEN by_flavor
        ELSE IF exists(st, universal_arch_path)
        THEN Found(universal_arch_path, universal, env.arch)
        ELSE IF exists(st, universal_general_path)
        THEN Found(universal_general_path, universal, general)
        ELSE NotFound

\* A plausible slip: the primary root searched before the overlay roots.
RECURSIVE root_loop_primary_first(_, _, _, _)
root_loop_primary_first(st, env, roots, tool_name) ==
    IF roots = <<>> THEN NotFound
    ELSE LET r == _find_install_script_in_root(st, env, roots[Len(roots)], tool_name)
         IN  IF r.found THEN r
             ELSE root_loop_primary_first(st, env, SubSeq(roots, 1, Len(roots) - 1), tool_name)

\* The loop over the roots of _find_install_script
RECURSIVE root_loop(_, _, _, _)
root_loop(st, env, roots, tool_name) ==
    IF roots = <<>> THEN NotFound
    ELSE LET r == _find_install_script_in_root(st, env, Head(roots), tool_name)
         IN  IF r.found THEN r ELSE root_loop(st, env, Tail(roots), tool_name)

\* NMSI._find_install_script
_find_install_script(st, env, tool_name) ==
    root_loop(st, env, _iter_install_roots(st), tool_name)

(***************************************************************************)
(* Bounds and the inputs the commands are run with                          *)
(***************************************************************************)
\* The store holds at most MaxEntries files and empty directories.
MaxEntries == 2

\* A script run by install exits with a code in 0..MaxExitCode.
MaxExitCode == 2

foo    == <<"f","o","o">>
bar    == <<"b","a","r">>
at_a   == <<"@","a">>
ubuntu == <<"u","b","u","n","t","u">>
s_sh   == <<"s",".","s","h">>

\* Tool names given to install and show.
ToolNames == {foo, bar}

\* --os and --arch given to add.
OsArgs == {None, linux, universal}

ArchArgs == {None, general}

\* What the script path given to add names on the local file system.
script_file(d) == [kind |-> "file", name |-> s_sh, file |-> [data |-> d, exec |-> FALSE]]

\* The invocations of add: every --os and --arch with a script file for foo,
\* another script for the environment's own OS and arch, one for a tool named
\* like an overlay root, one for another host's OS, and the failing script paths.
AddArgs ==
    {[tool_name |-> foo, os |-> o, arch |-> a, script |-> script_file(1)]
       : o \in OsArgs, a \in ArchArgs}
    \cup {[tool_name |-> foo, os |-> None, arch |-> None, script |-> script_file(2)],
          [tool_name |-> at_a, os |-> None, arch |-> None, script |-> script_file(1)],
          [tool_name |-> bar, os |-> macos, arch |-> None, script |-> script_file(1)]}
    \cup {[tool_name |-> foo, os |-> None, arch |-> None, script |-> [kind |-> k]]
            : k \in {"missing", "dir"}}

readme == <<"R","E","A","D","M","E">>

\* self.github_repo
github_repo == <<"g","i","t",":","/","/","g","i","t","h","u","b",".","c","o","m","/","t","o","r","u","-","n","a","k","a","i","/","n","m","s","i">>

\* The URLs given to update --from (None: no --from).
UpdateUrls ==
    {None,
     <<"g","i","t",":","/","/","h","/","a",".","g","i","t">>,
     <<"h","t","t","p","s",":","/","/","h","/","b",".","z","i","p">>,
     <<"f","i","l","e",":","/","/","/","s","/","a">>,
     <<"f","t","p",":","/","/","h","/","a">>}

\* More URLs given to update --from: a bare local path, and a URL whose path has
\* no last segment.
FetchUrls ==
    UpdateUrls \cup {<<"/","s","/","a">>, <<"f","i","l","e",":","/","/","/">>}

\* The invocations of add next to the fetches: a script for a tool, one for a tool
\* named like an overlay root, and the failing script paths.
FetchAddArgs ==
    {a \in AddArgs : a.os = None /\ a.arch = None /\ (a.script.kind = "file" => a.script.file.data = 1)}

sh(d) == [data |-> d, exec |-> FALSE]

\* Source trees: what a clone, an extracted archive or a local directory holds.
TreeUniversal == [p \in {<<install, foo, universal, general, install_sh>>} |-> sh(1)]

TreeReadme ==
    [p \in {<<install, foo, universal, general, install_sh>>, <<install, bar, readme>>}
       |-> IF name(p) = install_sh THEN sh(2) ELSE sh(1)]

TreeFlat == [p \in {<<foo, linux, general, install_sh>>} |-> sh(2)]

Trees == {TreeUniversal, TreeReadme, TreeFlat}

TreeWorlds(trees) == {[kind |-> "tree", tree |-> t] : t \in trees}

\* What git finds: no git binary, a failing clone, or a cloned tree.
GitWorlds == {[kind |-> "no_git"], [kind |-> "clone_failed"]} \cup TreeWorlds(Trees)

\* What the archive URL gives: a failing download, a failing extraction (or no
\* extraction tool), or an extracted tree.
HttpWorlds ==
    {[kind |-> "download_failed"], [kind |-> "extract_failed"]}
    \cup TreeWorlds({TreeUniversal, TreeFlat})

\* What the local source path is: missing, a file, or a directory.
FileWorlds ==
    {[kind |-> "missing"], [kind |-> "file", file |-> sh(1)]}
    \cup TreeWorlds({TreeUniversal, TreeFlat})

NoWorld == {[kind |-> "unused"]}

\* The hosts nmsi runs on: platform.system(), the os-release dictionary,
\* platform.machine(), and the constructor's os_type and arch.
LinuxHost ==
    [system |-> <<"L","i","n","u","x">>, os_release |-> [k \in {"ID"} |-> ubuntu],
     machine |-> x86_64, os_type |-> None, arch |-> None]

MacHost ==
    [system |-> <<"D","a","r","w","i","n">>, os_release |-> [k \in {} |-> <<>>],
     machine |-> arm64, os_type |-> None, arch |-> None]

(***************************************************************************)
(* Commands.  last records the command that ran last, its arguments, its    *)
(* exit code and what it printed or did.                                    *)
(***************************************************************************)
Commit(st) == dirs' = st.dirs /\ files' = st.files

\* The files and the empty directories of a store
leaves(st) ==
    LET entries == (st.dirs \ {<<>>}) \cup DOMAIN st.files
    IN  entries \ {parent(p) : p \in entries}

Fits(st) == IF st = Store THEN TRUE ELSE Cardinality(leaves(st)) <= MaxEntries

\* What running ["bash", script] can do: bash is missing, or the script exits.
BashOutcomes ==
    {[started |-> FALSE]} \cup {[started |-> TRUE, returncode |-> c] : c \in 0..MaxExitCode}

\* A plausible slip: the script's exit code does not decide install's.
install_rc_always_zero(outcome) == 0

\* The exit code of cmd_install after subprocess.run(..., check=True)
install_rc(outcome) ==
    IF outcome.started /\ outcome.returncode = 0 THEN 0 ELSE 1

\* NMSI.cmd_install
cmd_install(tool_name) ==
    LET r == _find_install_script(Store, nmsi, tool_name)
    IN  /\ IF ~r.found
           THEN last' = [cmd |-> "install", tool_name |-> tool_name, found |-> FALSE,
                         rc |-> 1, bash |-> "not_run"]
           ELSE \E outcome \in BashOutcomes :
                  last' = [cmd |-> "install", tool_name |-> tool_name, found |-> TRUE,
                           path |-> r.path, os |-> r.os, arch |-> r.arch,
                           rc |-> install_rc(outcome),
                           bash |-> IF outcome.started THEN "exited" ELSE "missing",
                           returncode |-> IF outcome.started THEN outcome.returncode ELSE 0]
        /\ UNCHANGED <<host, nmsi, dirs, files, tmpdirs>>

\* What show remembers of the command that ran just before it: a successful add
\* of the same tool (where it wrote, and what), or anything else.
ran_before(tool_name) ==
    IF last.cmd = "add" /\ last.rc = 0 /\ last.tool_name = tool_name
    THEN [cmd |-> "add",
          os |-> IF last.os # None THEN last.os ELSE nmsi.os_type,
          arch |-> IF last.arch # None THEN last.arch ELSE nmsi.arch,
          data |-> last.script.file.data]
    ELSE [cmd |-> "other"]

\* NMSI.cmd_show
cmd_show(tool_name) ==
    LET r    == _find_install_script(Store, nmsi, tool_name)
        args == [cmd |-> "show", tool_name |-> tool_name, after |-> ran_before(tool_name)]
    IN  /\ last' = IF ~r.found
                   THEN args @@ [found |-> FALSE, rc |-> 1]
                   ELSE IF is_file(Store, r.path)
                   THEN args @@ [found |-> TRUE, path |-> r.path, os |-> r.os,
                                 arch |-> r.arch, rc |-> 0, printed |-> files[r.path].data]
                   ELSE args @@ [found |-> TRUE, path |-> r.path, os |-> r.os,
                                 arch |-> r.arch, rc |-> 1]
        /\ UNCHANGED <<host, nmsi, dirs, files, tmpdirs>>

\* _has_any_install_script: a file named install.sh anywhere under tool_root
_has_any_install_script(st, tool_root) ==
    \E p \in DOMAIN st.files : is_under(p, tool_root) /\ name(p) = install_sh

\* The directory entries of the roots that cmd_list scans for tools
tool_entries(st) ==
    LET roots == _iter_install_roots(st)
    IN  UNION {{e \in iterdir(st, roots[i]) : is_dir(st, e) /\ ~startswith(name(e), AT)}
               : i \in 1..Len(roots)}

\* A plausible slip: list without --all prints every tool directory.
listed_tools_unresolved(st, env, all) == {name(e) : e \in tool_entries(st)}

\* The set of tools cmd_list prints
listed_tools(st, env, all) ==
    IF all
    THEN {name(e) : e \in {x \in tool_entries(st) : _has_any_install_script(st, x)}}
    ELSE {n \in {name(e) : e \in tool_entries(st)} : _find_install_script(st, env, n).found}

\* NMSI.cmd_list
cmd_list(all) ==
    LET st    == mkdir(Store, <<>>).st
        tools == listed_tools(st, nmsi, all)
    IN  /\ Commit(st)
        /\ last' = [cmd |-> "list", all |-> all, rc |-> 0,
                    message |-> IF ~exists(st, <<>>) \/ tools = {} THEN "no tools available"
                                ELSE "available tools",
                    tools |-> sorted(tools)]
        /\ UNCHANGED <<host, nmsi, tmpdirs>>

\* NMSI.cmd_add
cmd_add(tool_name, os_arg, arch_arg, script) ==
    LET os_type   == IF os_arg # None THEN os_arg ELSE nmsi.os_type
        arch      == IF arch_arg # None THEN arch_arg ELSE nmsi.arch
        dest_path == <<tool_name, os_type, arch, install_sh>>
        args      == [cmd |-> "add", tool_name |-> tool_name, os |-> os_arg,
                      arch |-> arch_arg, script |-> script]
        made      == mkdir(mkdir(Store, <<>>).st, parent(dest_path))
    IN  /\ IF script.kind # "file"
           THEN \* the script path does not exist, or is not a file
                /\ last' = args @@ [rc |-> 1, copied |-> FALSE]
                /\ UNCHANGED <<dirs, files>>
           ELSE IF ~made.ok
           THEN \* mkdir raises: the exception leaves cmd_add
                /\ last' = args @@ [rc |-> 1, copied |-> FALSE, raised |-> TRUE]
                /\ Fits(made.st) /\ Commit(made.st)
           ELSE IF copy2_ok(made.st, script.name, dest_path)
           THEN \* shutil.copy2 and chmod succeed
                /\ LET st == chmod(copy2(made.st, script.name, script.file, dest_path),
                                   dest_path)
                   IN  Fits(st) /\ Commit(st)
                /\ last' = args @@ [rc |-> 0, copied |-> TRUE]
           ELSE \* shutil.copy2 raises
                /\ Fits(made.st) /\ Commit(made.st)
                /\ last' = args @@ [rc |-> 1, copied |-> FALSE]
        /\ UNCHANGED <<host, nmsi, tmpdirs>>

\* The URL cmd_update fetches and the root it fetches into
update_url(from_url) == IF from_url # None THEN from_url ELSE github_repo

\* A plausible slip: the overlay marker left out of the root's name.
update_destination_unmarked(from_url) ==
    IF from_url # None THEN <<_get_repo_name_from_url(from_url).name>> ELSE <<>>

update_destination(from_url) ==
    IF from_url # None THEN <<AT \o _get_repo_name_from_url(from_url).name>> ELSE <<>>

\* Path(urlparse(url).path) of FileDownloader.download
source_path_of(url) == split(rstrip(urlparse(url).path, "/"), "/")

\* For each URL of the model: whether a repository name can be derived from it,
\* the downloader create_downloader makes, and the destination root.
Plans ==
    [u \in FetchUrls |->
       [named       |-> u = None \/ _get_repo_name_from_url(u).ok,
        d           |-> create_downloader(update_url(u)),
        destination |-> update_destination(u),
        source_path |-> source_path_of(update_url(u))]]

\* The states of the world the downloader of cmd_update can meet
worlds_of(plan) ==
    IF ~plan.named THEN NoWorld
    ELSE IF plan.d.class = "GitDownloader" THEN GitWorlds
    ELSE IF plan.d.class = "HttpDownloader" THEN HttpWorlds
    ELSE IF plan.d.class = "FileDownloader" THEN FileWorlds
    ELSE NoWorld

WorldsFor(from_url) == worlds_of(Plans[from_url])

\* downloader.download() of the downloader create_downloader made
download(st, plan, world) ==
    IF plan.d.class = "GitDownloader"
    THEN GitDownloader_download(st, plan.destination, world)
    ELSE IF plan.d.class = "HttpDownloader"
    THEN HttpDownloader_download(st, plan.destination, world)
    ELSE FileDownloader_download(st, plan.destination, plan.source_path, world)

\* What update reports of its run
update_report(plan, from_url, world, o, raised) ==
    [cmd |-> "update", from_url |-> from_url, class |-> plan.d.class, url |-> plan.d.url,
     destination |-> plan.destination, world |-> world, rc |-> o.rc, raised |-> raised,
     scratch |-> o.scratch]

\* cmd_update with the repository name and the downloader of its URL
update_with(plan, from_url, world) ==
    /\ IF ~plan.named
       THEN \* ValueError raised outside the try block
            /\ last' = update_report(plan, from_url, world, Outcome(1, Store), TRUE)
            /\ UNCHANGED <<dirs, files, tmpdirs>>
       ELSE IF plan.d.class = "unsupported"
       THEN /\ last' = update_report(plan, from_url, world, Outcome(1, Store), FALSE)
            /\ UNCHANGED <<dirs, files, tmpdirs>>
       ELSE \E o \in download(Store, plan, world) :
              /\ Fits(o.st) /\ Commit(o.st)
              /\ tmpdirs' = tmpdirs \cup o.tmp
              /\ last' = update_report(plan, from_url, world, o, FALSE)
    /\ UNCHANGED <<host, nmsi>>

\* NMSI.cmd_update
cmd_update(from_url, world) == update_with(Plans[from_url], from_url, world)

(***************************************************************************)
(* Specification                                                            *)
(***************************************************************************)
Init ==
    /\ host = LinuxHost
    /\ nmsi = NMSI_init(host)
    /\ dirs = {}
    /\ files = EmptyFiles
    /\ tmpdirs = {}
    /\ last = [cmd |-> "init"]

\* The worlds in which the fetch of a URL gets as far as its source (the fetches
\* that fail before that are run in the Fetch specification)
Fetched(from_url) == {w \in WorldsFor(from_url) : w.kind \in {"tree", "file"}}

Next ==
    \/ \E t \in ToolNames : cmd_install(t)
    \/ \E t \in ToolNames : cmd_show(t)
    \/ \E all \in BOOLEAN : cmd_list(all)
    \/ \E a \in AddArgs : cmd_add(a.tool_name, a.os, a.arch, a.script)
    \/ \E u \in UpdateUrls : \E w \in Fetched(u) : cmd_update(u, w)

Spec == Init /\ [][Next]_vars

(***************************************************************************)
(* Environment specification: nmsi started on every kind of host, with the  *)
(* commands whose result depends on the detected environment.               *)
(***************************************************************************)
\* platform.machine() values
Machines ==
    {x86_64, amd64, <<"A","M","D","6","4">>, aarch64, arm64, <<"A","R","M","6","4">>,
     <<"a","r","m","v","7","l">>, arm, i386, i686, <<"r","i","s","c","v","6","4">>, <<>>}

\* os-release dictionaries: no file, a derivative with a version and one parent,
\* a derivative with several parents, and plain "linux"
OsReleases ==
    {[k \in {} |-> <<>>],
     [k \in {"ID", "VERSION_ID", "ID_LIKE"} |->
        IF k = "ID" THEN <<"U","b","u","n","t","u">>
        ELSE IF k = "VERSION_ID" THEN <<"2","2",".","0","4">>
        ELSE <<"d","e","b","i","a","n">>],
     [k \in {"ID", "VERSION_ID", "ID_LIKE"} |->
        IF k = "ID" THEN <<"r","o","c","k","y">>
        ELSE IF k = "VERSION_ID" THEN <<"9">>
        ELSE <<"r","h","e","l"," ","f","e","d","o","r","a">>],
     [k \in {"ID"} |-> linux]}

\* More os-release dictionaries: family names without an ID (the ID defaults to
\* "linux"), and a family list that names the distribution itself
MoreOsReleases ==
    {[k \in {"ID_LIKE"} |-> <<"d","e","b","i","a","n">>],
     [k \in {"ID", "VERSION_ID", "ID_LIKE"} |->
        IF k = "ID" THEN <<"r","h","e","l">>
        ELSE IF k = "VERSION_ID" THEN <<"\"","9",".","3","\"">>
        ELSE <<"F","e","d","o","r","a"," ","r","h","e","l">>]}

Systems ==
    {<<"L","i","n","u","x">>, <<"D","a","r","w","i","n">>,
     <<"W","i","n","d","o","w","s">>, <<"F","r","e","e","B","S","D">>}

\* The hosts: every machine on every system (every os-release on Linux), and
\* instances constructed with an os_type or an arch of their own.
EnvHosts ==
    {[system |-> sys, os_release |-> rel, machine |-> m, os_type |-> None, arch |-> None]
       : sys \in Systems, rel \in {r \in OsReleases : DOMAIN r = {}}, m \in Machines}
    \cup {[LinuxHost EXCEPT !.os_release = rel, !.machine = m]
            : rel \in OsReleases, m \in Machines}
    \cup {[LinuxHost EXCEPT !.os_release = rel] : rel \in MoreOsReleases}
    \cup {[LinuxHost EXCEPT !.os_type = o, !.arch = a]
            : o \in {None, <<"U","b","u","n","t","u">>, linux, macos},
              a \in {None, <<"a","r","m","v","7","l">>}}

\* The instance before __init__ has run
NotConstructed == [os_type |-> None, os_flavors |-> <<>>, arch |-> None]

\* NMSI.__init__ as a step of the process
NMSI_new ==
    /\ nmsi = NotConstructed
    /\ nmsi' = NMSI_init(host)
    /\ last' = [cmd |-> "new"]
    /\ UNCHANGED <<host, dirs, files, tmpdirs>>

\* The commands run on every host: install of every tool, one add, and update
\* from a local source.
EnvAddArgs == {[tool_name |-> foo, os |-> None, arch |-> None, script |-> script_file(1)]}

EnvUpdateUrls == {<<"f","i","l","e",":","/","/","/","s","/","a">>}

InitEnv ==
    /\ host \in EnvHosts
    /\ nmsi = NotConstructed
    /\ dirs = {}
    /\ files = EmptyFiles
    /\ tmpdirs = {}
    /\ last = [cmd |-> "init"]

NextEnv ==
    \/ NMSI_new
    \/ nmsi # NotConstructed /\ \E t \in ToolNames : cmd_install(t)
    \/ nmsi # NotConstructed /\ \E a \in EnvAddArgs : cmd_add(a.tool_name, a.os, a.arch, a.script)
    \/ nmsi # NotConstructed /\ \E u \in EnvUpdateUrls : \E w \in WorldsFor(u) : cmd_update(u, w)

SpecEnv == InitEnv /\ [][NextEnv]_vars

(***************************************************************************)
(* Fetch specification: the commands that write the store, with every kind  *)
(* of URL, and the commands that list and show what they wrote.             *)
(***************************************************************************)
NextFetch ==
    \/ cmd_show(foo)
    \/ \E all \in BOOLEAN : cmd_list(all)
    \/ \E a \in FetchAddArgs : cmd_add(a.tool_name, a.os, a.arch, a.script)
    \/ \E u \in FetchUrls : \E w \in WorldsFor(u) : cmd_update(u, w)

SpecFetch == Init /\ [][NextFetch]_vars

(***************************************************************************)
(* Properties                                                               *)
(***************************************************************************)
\* The roots of the store: the overlay roots and the primary root
OverlayRoots == {d \in dirs : Len(d) = 1 /\ startswith(d[1], AT)}

Roots == OverlayRoots \cup {<<>>}

\* The names a tool can have in the store: the entries of the roots
EntryNames == {name(p) : p \in {q \in dirs \cup DOMAIN files : q # <<>> /\ parent(q) \in Roots}}

TheTools == ToolNames \cup EntryNames

\* The k-th candidate of a root: for each OS of the chain in order the
\* environment's arch and then general, then universal with the same two.
Candidate(k) ==
    LET n == Len(nmsi.os_flavors)
    IN  [os   |-> IF k <= 2 * n THEN nmsi.os_flavors[(k + 1) \div 2] ELSE universal,
         arch |-> IF k % 2 = 1 THEN nmsi.arch ELSE general]

CandidatePath(root, tool_name, k) ==
    root \o <<tool_name, Candidate(k).os, Candidate(k).arch, install_sh>>

\* The candidates of a root that exist in the store
Hits(root, tool_name) ==
    {k \in 1..(2 * Len(nmsi.os_flavors) + 2) : exists(Store, CandidatePath(root, tool_name, k))}

Least(S) == CHOOSE k \in S : \A j \in S : k <= j

\* C1: within one root the search returns the first existing candidate of
\* (flavor 1, arch), (flavor 1, general), ..., (flavor n, arch), (flavor n, general),
\* (universal, arch), (universal, general), and not-found when none exists.
C1_candidate_order ==
    \A root \in Roots : \A t \in TheTools :
      LET r == _find_install_script_in_root(Store, nmsi, root, t)
          k == Least(Hits(root, t))
      IN  IF Hits(root, t) = {} THEN ~r.found
          ELSE /\ r.found
               /\ r.path = CandidatePath(root, t, k)
               /\ r.os = Candidate(k).os
               /\ r.arch = Candidate(k).arch

\* show has printed the arch-independent script of the first flavor while an
\* arch-specific script of a later flavor is in the same (only) root.
C1_witness ==
    /\ last.cmd = "show" /\ last.found
    /\ OverlayRoots = {}
    /\ Len(nmsi.os_flavors) > 1
    /\ last.path = <<last.tool_name, nmsi.os_flavors[1], general, install_sh>>
    /\ exists(Store, <<last.tool_name, nmsi.os_flavors[2], nmsi.arch, install_sh>>)

\* C2: the overlay roots are searched in the alphabetical order of their names and
\* the primary root last: the result lies in the first overlay root that has any
\* candidate, whatever the primary root holds, and in the primary root only when
\* no overlay root has one.
C2_overlay_precedence ==
    \A t \in TheTools :
      LET r        == _find_install_script(Store, nmsi, t)
          matching == {o \in OverlayRoots : Hits(o, t) # {}}
      IN  /\ r.found <=> \E root \in Roots : Hits(root, t) # {}
          /\ matching # {} =>
               \E o \in matching :
                 /\ r = _find_install_script_in_root(Store, nmsi, o, t)
                 /\ \A other \in matching \ {o} : str_less(o[1], other[1])
          /\ (matching = {} /\ Hits(<<>>, t) # {}) =>
               r = _find_install_script_in_root(Store, nmsi, <<>>, t)

\* show has printed the least specific script of an overlay root while the primary
\* root holds the most specific one.
C2_witness ==
    /\ last.cmd = "show" /\ last.found
    /\ last.path = <<at_a, last.tool_name, universal, general, install_sh>>
    /\ is_file(Store, <<last.tool_name, nmsi.os_flavors[1], nmsi.arch, install_sh>>)

\* No root holds a script of the tool for an OS of the chain or universal and for
\* the environment's arch or general.
NoScript(tool_name) ==
    \A root \in Roots : \A os_name \in {nmsi.os_flavors[i] : i \in DOMAIN nmsi.os_flavors} \cup {universal} :
      \A arch \in {nmsi.arch, general} :
        ~exists(Store, root \o <<tool_name, os_name, arch, install_sh>>)

\* C3: when no root holds a script of the tool for the environment, install and
\* show find nothing and return 1, and install does not start bash.
C3_not_found ==
    (last.cmd \in {"install", "show"} /\ NoScript(last.tool_name)) =>
       /\ ~last.found
       /\ last.rc = 1
       /\ last.cmd = "install" => last.bash = "not_run"

\* install has failed for a tool whose only script is for another OS.
C3_witness ==
    /\ last.cmd = "install" /\ last.rc = 1 /\ last.bash = "not_run"
    /\ NoScript(last.tool_name)
    /\ \E p \in DOMAIN files : p[1] = last.tool_name /\ name(p) = install_sh

\* show ran right after a successful add of the same tool for the environment's
\* own OS and arch
ShowAfterAdd ==
    /\ last.cmd = "show"
    /\ last.after.cmd = "add"
    /\ last.after.os = nmsi.os_type
    /\ last.after.arch = nmsi.arch

\* No overlay root holds a candidate of the tool
Unshadowed(tool_name) == \A o \in OverlayRoots : Hits(o, tool_name) = {}

\* C4 as stated: from any store state, show right after a successful add of the
\* same tool for the environment's OS and arch prints what that add wrote.
C4_show_after_add ==
    ShowAfterAdd => (last.rc = 0 /\ last.printed = last.after.data)

\* C4 amended: show right after such an add prints what the add wrote whenever no
\* overlay root holds a candidate of the tool.
C4_show_after_add_unshadowed ==
    (ShowAfterAdd /\ Unshadowed(last.tool_name)) =>
       (last.rc = 0 /\ last.printed = last.after.data)

\* show has printed what add just wrote, with an overlay root in the store.
C4_witness ==
    /\ ShowAfterAdd /\ Unshadowed(last.tool_name)
    /\ OverlayRoots # {}
    /\ last.rc = 0 /\ last.printed = last.after.data

\* The https:// URL obtained from a git:// URL by replacing its scheme
https_twin(url) == https_scheme \o SubSeq(url, Len(git_scheme) + 1, Len(url))

\* C5 as stated: update --from a git:// URL and update --from its https:// twin
\* select the same destination name and the same kind of fetch (a clone of the
\* same normalized address).
C5_same_fetch ==
    (last.cmd = "update" /\ last.from_url # None /\ startswith(last.from_url, git_scheme)) =>
       /\ _get_repo_name_from_url(https_twin(last.from_url))
            = _get_repo_name_from_url(last.from_url)
       /\ create_downloader(https_twin(last.from_url)).class = last.class
       /\ create_downloader(https_twin(last.from_url)).url = last.url

\* C6 as stated: the exit code of install is the exit code of the script it ran.
C6_install_rc_is_script_rc ==
    (last.cmd = "install" /\ last.bash = "exited") => last.rc = last.returncode

\* C6 amended: install returns 0 when the script it ran exits with 0 and 1 when
\* the script exits with any other code.
C6_install_rc_zero_or_one ==
    (last.cmd = "install" /\ last.bash = "exited") =>
       last.rc = (IF last.returncode = 0 THEN 0 ELSE 1)

\* install has run a script that exited with a code above 1.
C6_witness ==
    /\ last.cmd = "install" /\ last.bash = "exited"
    /\ last.returncode > 1
    /\ last.rc = 1

\* C7: _get_arch is idempotent, maps x86_64 and amd64 to amd64, aarch64 and arm64
\* to arm64, every other arm* (armv7l) to arm, i386 and i686 to i386, and never
\* maps arm64 to arm.
C7_arch_idempotent ==
    (nmsi # NotConstructed /\ host.arch = None) =>
       LET m == lower(host.machine)
       IN  /\ _get_arch(nmsi.arch) = nmsi.arch
           /\ \A c \in {amd64, arm64, arm, i386} : _get_arch(c) = c
           /\ m \in {x86_64, amd64} => nmsi.arch = amd64
           /\ m \in {aarch64, arm64} => nmsi.arch = arm64
           /\ (startswith(m, arm) /\ m # arm64) => nmsi.arch = arm
           /\ m \in {i386, i686} => nmsi.arch = i386
           /\ m \notin {x86_64, amd64, aarch64, arm64, i386, i686} /\ ~startswith(m, arm)
                => nmsi.arch = m

\* An instance has been constructed on a host whose machine is ARM64 in another
\* letter case, and got arm64.
C7_witness ==
    /\ last.cmd = "new" /\ host.arch = None
    /\ host.machine # arm64 /\ lower(host.machine) = arm64
    /\ nmsi.arch = arm64

\* update has succeeded from a local directory that holds
\* install/<tool>/universal/general/install.sh
UpdatedFromLocal(tool_name) ==
    /\ last.cmd = "update" /\ last.rc = 0
    /\ last.class = "FileDownloader"
    /\ last.world.kind = "tree"
    /\ <<install, tool_name, universal, general, install_sh>> \in DOMAIN last.world.tree

\* C8: after a successful update from a local directory that holds
\* install/<tool>/universal/general/install.sh, resolution finds a script of the
\* tool, on every host and whatever the store held before.
C8_universal_fallback ==
    \A t \in TheTools : UpdatedFromLocal(t) => _find_install_script(Store, nmsi, t).found

\* Such an update has succeeded on a host that is not Linux, into a store whose
\* primary root held a script of the tool, and the script found is the universal
\* one it copied.
C8_witness ==
    /\ UpdatedFromLocal(foo)
    /\ nmsi.os_flavors = <<macos>>
    /\ is_file(Store, <<foo, macos, nmsi.arch, install_sh>>)
    /\ _find_install_script(Store, nmsi, foo).path
         = last.destination \o <<foo, universal, general, install_sh>>

\* The tool directories of the store: the directories directly under a root that
\* are not overlay roots themselves
ToolDirectories == {d \in dirs : d # <<>> /\ parent(d) \in Roots /\ d \notin OverlayRoots}

\* The tools resolution finds a script for
Resolvable == {t \in TheTools : _find_install_script(Store, nmsi, t).found}

\* The tool directories that hold a file named install.sh at any depth
WithScript == {d \in ToolDirectories : \E p \in DOMAIN files : is_under(p, d) /\ name(p) = install_sh}

Printed == {last.tools[i] : i \in DOMAIN last.tools}

EmptyStoreListed ==
    (last.cmd = "list" /\ DOMAIN files = {}) =>
       (last.message = "no tools available" /\ last.rc = 0)

\* C9 as stated: list prints exactly the tools resolution finds a script for,
\* list --all prints every tool directory of every root, and list of a store
\* without scripts prints the no-tools message and returns 0.
C9_list_exact ==
    /\ (last.cmd = "list" /\ ~last.all) => Printed = Resolvable
    /\ (last.cmd = "list" /\ last.all) => Printed = {name(d) : d \in ToolDirectories}
    /\ EmptyStoreListed

\* C9 amended: list prints exactly the tools whose name does not start with "@"
\* and that resolution finds a script for; list --all prints exactly the tool
\* directories whose name does not start with "@" and that hold a file named
\* install.sh at any depth; what list prints, list --all prints too; list of a
\* store without scripts prints the no-tools message and returns 0.
C9_list_unprefixed ==
    LET plain      == {t \in Resolvable : ~startswith(t, AT)}
        everything == {name(d) : d \in {x \in WithScript : ~startswith(name(x), AT)}}
    IN  /\ (last.cmd = "list" /\ ~last.all) => Printed = plain
        /\ (last.cmd = "list" /\ last.all) => Printed = everything
        /\ last.cmd = "list" => plain \subseteq everything
        /\ EmptyStoreListed

\* list has printed one tool while the store holds the directory of another
\* tool that has a script for another OS only.
C9_witness ==
    /\ last.cmd = "list" /\ ~last.all
    /\ last.tools = <<foo>>
    /\ bar \in {name(d) : d \in WithScript}
    /\ last.message = "available tools"

\* The trees a run of update copies from (one of them, for an archive)
CopiedTrees(l) ==
    IF l.cmd # "update" \/ l.world.kind # "tree" THEN {}
    ELSE IF l.class = "HttpDownloader"
    THEN {subtree(l.world.tree, d) : d \in install_dirs(l.world.tree)}
    ELSE IF <<install>> \in tree_dirs(l.world.tree)
    THEN {subtree(l.world.tree, <<install>>)}
    ELSE IF l.class = "FileDownloader" THEN {l.world.tree}
    ELSE {}

\* p holds, in the files fs, the content of the file of source with its relative path
HoldsSource(fs, destination, source, p) ==
    \E r \in DOMAIN source : p = destination \o r /\ p \in DOMAIN fs /\ fs[p].data = source[r].data

\* C10: a step of update that copies a tree removes no directory and no file, leaves
\* every file whose relative path is not in the source as it was, gives every file
\* it changes or creates the content of the source, and, when it succeeds, ends
\* with every file of the source in the destination; a copy that fails part-way
\* obeys the same.
C10_additive_merge ==
    [][(last'.cmd = "update" /\ last'.world.kind = "tree") =>
         /\ dirs \subseteq dirs'
         /\ DOMAIN files \subseteq DOMAIN files'
         /\ \A p \in DOMAIN files' :
              \/ p \in DOMAIN files /\ files'[p].data = files[p].data
              \/ \E source \in CopiedTrees(last') :
                   HoldsSource(files', last'.destination, source, p)
         /\ (last'.rc = 0) =>
              \E source \in CopiedTrees(last') :
                \A r \in DOMAIN source :
                  HoldsSource(files', last'.destination, source, last'.destination \o r)
      ]_vars

\* A copy has failed part-way, and the destination still holds a file whose
\* relative path is not in the source.
C10_witness ==
    /\ last.cmd = "update" /\ last.rc = 1
    /\ CopiedTrees(last) # {}
    /\ \E p \in DOMAIN files :
         /\ is_under(p, last.destination)
         /\ \A source \in CopiedTrees(last) :
              SubSeq(p, Len(last.destination) + 1, Len(p)) \notin DOMAIN source
    /\ \E d \in dirs : is_under(d, last.destination) /\ \A p \in DOMAIN files : ~is_under(p, d)

\* The files a step creates or changes, and the directories it creates
WrittenFiles == {p \in DOMAIN files' : p \notin DOMAIN files \/ files'[p] # files[p]}

MadeDirs == dirs' \ dirs

\* The last path segment of a URL: what follows the last "/" of the URL without
\* its query, its fragment and its trailing slashes
last_segment(url) ==
    LET parts == split(rstrip(before_any(url, {"?", "#"}), "/"), "/")
    IN  parts[Len(parts)]

\* The overlay root of a URL: "@" and the last path segment up to its first "."
overlay_of(url) == <<AT \o before_any(last_segment(url), {"."})>>

\* p lies in an overlay root
in_overlay(p) == p # <<>> /\ startswith(p[1], AT)

\* The position of root in the roots resolution consults, 0 when it is not one
consulted_at(st, root) ==
    LET roots == _iter_install_roots(st)
    IN  IF \E i \in 1..Len(roots) : roots[i] = root
        THEN CHOOSE i \in 1..Len(roots) : roots[i] = root
        ELSE 0

\* C11: update without --from writes only into the primary root (the source holding
\* tool directories, nothing in an overlay root is created or changed); update --from url writes only into the
\* overlay root "@" + id, id being the URL's last path segment up to its first
\* ".", (the root itself, the directories leading to it, and what lies under it);
\* after a successful update --from that root is consulted before the primary root.
C11_update_destination ==
    [][last'.cmd = "update" =>
         IF last'.from_url = None
         THEN /\ \A p \in WrittenFiles \cup MadeDirs : ~in_overlay(p)
              /\ last'.destination = <<>>
         ELSE LET root == overlay_of(last'.from_url)
              IN  /\ \A p \in WrittenFiles : is_under(p, root)
                  /\ \A d \in MadeDirs : d \in Prefixes(root) \/ is_under(d, root)
                  /\ last'.rc = 0 =>
                       /\ consulted_at(Store', root) > 0
                       /\ consulted_at(Store', root) < consulted_at(Store', <<>>)
      ]_vars

\* update --from has succeeded into an overlay root that resolution consults, in
\* a store whose primary root holds a script too.
C11_witness ==
    /\ last.cmd = "update" /\ last.from_url # None /\ last.rc = 0
    /\ last.destination = overlay_of(last.from_url)
    /\ consulted_at(Store, last.destination) = 1
    /\ \E p \in DOMAIN files : is_under(p, last.destination)
    /\ \E p \in DOMAIN files : ~in_overlay(p)

\* The URL names a local source: a file-scheme URL or a bare path
is_local(url) ==
    \/ urlparse(url).scheme = file
    \/ urlparse(url).scheme = <<>> /\ ~startswith(url, git_at)

\* C12 as stated: a file-scheme URL or a bare path is fetched as a local source;
\* a single file is copied into the destination under its own name and made
\* executable, a directory has the contents of its install subdirectory copied,
\* or its own contents when it has none.
C12_local_source ==
    (last.cmd = "update" /\ last.from_url # None /\ is_local(last.from_url)) =>
       /\ last.class = "FileDownloader"
       /\ (last.world.kind = "file" /\ last.rc = 0) =>
            LET dest_file == last.destination \o <<name(source_path_of(last.from_url))>>
            IN  /\ is_file(Store, dest_file)
                /\ files[dest_file] = [data |-> last.world.file.data, exec |-> TRUE]
       /\ (last.world.kind = "tree" /\ last.rc = 0) =>
            \E source \in CopiedTrees(last) :
              \A r \in DOMAIN source :
                HoldsSource(files, last.destination, source, last.destination \o r)

\* The URL given to update --from cannot be fetched: its scheme is unsupported,
\* the local source is missing, or no repository name can be derived from it
Unfetchable(l) ==
    \/ l.class = "unsupported"
    \/ l.world.kind = "missing"
    \/ ~_get_repo_name_from_url(l.from_url).ok

\* C13 as stated: update --from returns 0 or 1 and no exception leaves it; with an
\* unsupported scheme, a missing local source or a URL without a derivable
\* repository name it returns 1 and leaves the store as it was.
C13_update_returns ==
    [][(last'.cmd = "update" /\ last'.from_url # None) =>
         /\ ~last'.raised
         /\ last'.rc \in {0, 1}
         /\ Unfetchable(last') => (last'.rc = 1 /\ dirs' = dirs /\ files' = files)
      ]_vars

\* The path add writes for the arguments recorded in l: the tool, the --os and
\* --arch given or else the environment's
add_target(l) ==
    <<l.tool_name,
      IF l.os # None THEN l.os ELSE nmsi.os_type,
      IF l.arch # None THEN l.arch ELSE nmsi.arch,
      install_sh>>

\* C14 as stated: a successful add leaves the script's content at T/O/A/install.sh
\* of the primary root, changes no other file and nothing in an overlay root; add
\* with a missing or non-file script path returns 1 and changes nothing.
C14_add_frame ==
    [][last'.cmd = "add" =>
         /\ last'.rc = 0 =>
              /\ is_file(Store', add_target(last'))
              /\ files'[add_target(last')].data = last'.script.file.data
              /\ \A p \in DOMAIN files \ {add_target(last')} :
                   p \in DOMAIN files' /\ files'[p] = files[p]
              /\ DOMAIN files' \subseteq DOMAIN files \cup {add_target(last')}
              /\ \A p \in WrittenFiles \cup MadeDirs : ~in_overlay(p)
         /\ last'.script.kind # "file" =>
              (last'.rc = 1 /\ dirs' = dirs /\ files' = files)
      ]_vars

\* The instance's chain was built by Linux detection
Detected == nmsi # NotConstructed /\ host.os_type = None /\ lower(host.system) = linux

\* The instance's chain was built from the constructor's os_type
Overridden == nmsi # NotConstructed /\ host.os_type # None

NoDuplicate(chain) == \A i, j \in DOMAIN chain : chain[i] = chain[j] => i = j

\* C15 as stated: a chain built by Linux detection or from an override is not
\* empty, has no duplicate and ends with "linux"; an override (in lower case)
\* other than linux gives [override, linux], linux gives [linux], and an
\* os-release without an ID gives [linux].
C15_chain_ends_generic ==
    (Detected \/ Overridden) =>
       /\ nmsi.os_flavors # <<>>
       /\ NoDuplicate(nmsi.os_flavors)
       /\ nmsi.os_flavors[Len(nmsi.os_flavors)] = linux
       /\ Overridden =>
            nmsi.os_flavors = IF lower(host.os_type) = linux THEN <<linux>>
                              ELSE <<lower(host.os_type), linux>>
       /\ (Detected /\ "ID" \notin DOMAIN host.os_release) => nmsi.os_flavors = <<linux>>

\* The position of a name in a chain, 0 when it is not in it
chain_pos(chain, x) ==
    IF \E i \in DOMAIN chain : chain[i] = x
    THEN CHOOSE i \in DOMAIN chain : chain[i] = x
    ELSE 0

\* What the host's os-release says: the distro id, the major version (the
\* unquoted VERSION_ID up to its first "."), and the family ids in the order
\* listed, all in lower case
distro_id(h) == lower(get(h.os_release, "ID", linux))

major_version(h) ==
    before_any(strip(strip(get(h.os_release, "VERSION_ID", <<>>), " "), "\""), {"."})

family_ids(h) ==
    LET likes == split_ws(get(h.os_release, "ID_LIKE", <<>>))
    IN  [i \in DOMAIN likes |-> lower(likes[i])]

\* x comes before y in the chain, both being in it
Precedes(chain, x, y) == 0 < chain_pos(chain, x) /\ chain_pos(chain, x) < chain_pos(chain, y)

C17_list_show_read_only ==
    [][last'.cmd \in {"list", "show"} => (dirs' = dirs /\ files' = files)]_vars

\* C18: no scratch directory of a clone or of an archive fetch is left when update
\* returns, however the fetch ended: success, failed clone or download, failed
\* extraction, no install directory, failed copy.
C18_scratch_removed == tmpdirs = {}

\* The ways a fetch that made a scratch directory can end
FetchEnd(l) ==
    IF l.world.kind # "tree" THEN l.world.kind
    ELSE IF CopiedTrees(l) = {} THEN "no_install"
    ELSE IF l.rc = 0 THEN "copied"
    ELSE "copy_failed"

\* update has returned after an archive fetch whose copy failed, having made a
\* scratch directory, and none is left.
C18_witness ==
    /\ last.cmd = "update" /\ last.scratch
    /\ last.class = "HttpDownloader"
    /\ FetchEnd(last) = "copy_failed"
    /\ tmpdirs = {}

=============================================================================
